---- MODULE Spec2Model ----
(***************************************************************************)
(* Ontology metrics toolkit (src/main.py): the classification engine       *)
(* (identify_classes, count_individuals, list_properties_by_concept,       *)
(* list_properties_by_individual, calculate_totals_and_densities,          *)
(* count_subclasses_and_average), process_ttl_file and the batch loop of   *)
(* __main__.                                                               *)
(***************************************************************************)
EXTENDS Integers, Sequences, FiniteSets, TLC

(***************************************************************************)
(* RDF terms.  A term is an IRI (URIRef), a blank node (BNode) or a        *)
(* literal.  ns/local are the two halves of the term's string form; parse  *)
(* is the number of the Graph.parse call that minted a blank-node id (0    *)
(* for the label written in the file and for every other term).            *)
(***************************************************************************)
URIRef(ns, local) == [kind |-> "iri", ns |-> ns, local |-> local, parse |-> 0]

BNode(label) == [kind |-> "bnode", ns |-> "_", local |-> label, parse |-> 0]

Literal(ns, local) == [kind |-> "lit", ns |-> ns, local |-> local, parse |-> 0]

IsURIRef(t) == t.kind = "iri"

IsBNode(t) == t.kind = "bnode"

IsLiteral(t) == t.kind = "lit"

\* str(term): the lexical form only; the kind of the term is dropped
Str(t) == <<t.ns, t.local, t.parse>>

XSD == "xsd"

\* str(o).startswith(str(XSD))
StartsWithXSD(t) == Str(t)[1] = XSD

OWL(local) == URIRef("owl", local)

RDF(local) == URIRef("rdf", local)

RDFS(local) == URIRef("rdfs", local)

RDF_type == RDF("type")

RDFS_subClassOf == RDFS("subClassOf")

OWL_Class == OWL("Class")

RDFS_Class == RDFS("Class")

RDF_CLASS == RDF("Class")

OWL_Ontology == OWL("Ontology")

OWL_NamedIndividual == OWL("NamedIndividual")

OWL_EXCLUDES ==
    { OWL("Ontology"), OWL("Restriction"), OWL("DeprecatedClass"),
      OWL("ObjectProperty"), OWL("TransitiveProperty"), OWL("DatatypeProperty"),
      OWL("FunctionalProperty"), OWL("DeprecatedProperty"), OWL("Thing"),
      OWL("Nothing"), OWL("AnnotationProperty"), OWL("SymmetricProperty"),
      OWL("InverseFunctionalProperty") }

ADDITIONAL_EXCLUDES == { RDFS("Class"), OWL("Class"), RDF("Property") }

RDFS_EXCLUDES == { RDFS("Datatype"), RDFS("Resource"), RDFS("Literal") }

\* excluded_types without owl:Ontology
excluded_types_without_ontology ==
    { OWL("Class"), OWL("ObjectProperty"), OWL("AnnotationProperty"),
      OWL("DatatypeProperty"), OWL("Restriction"),
      OWL("FunctionalProperty"), OWL("DeprecatedProperty"),
      OWL("InverseFunctionalProperty"), OWL("SymmetricProperty"),
      OWL("TransitiveProperty"), OWL("onDatatype"), OWL("DeprecatedClass"),
      RDF("Property"), RDFS("Datatype"), RDFS("Class") }

excluded_types ==
    { OWL("Class"), OWL("ObjectProperty"), OWL("AnnotationProperty"),
      OWL("DatatypeProperty"), OWL("Ontology"), OWL("Restriction"),
      OWL("FunctionalProperty"), OWL("DeprecatedProperty"),
      OWL("InverseFunctionalProperty"), OWL("SymmetricProperty"),
      OWL("TransitiveProperty"), OWL("onDatatype"), OWL("DeprecatedClass"),
      RDF("Property"), RDFS("Datatype"), RDFS("Class") }

excluded_object_properties == { RDFS_subClassOf, RDF_type }

(***************************************************************************)
(* Graphs.  A graph is a set of triples <<s, p, o>>.                       *)
(***************************************************************************)
\* g.triples((s, p, o)) with None as the wildcard, one operator per pattern used
TriplesPO(g, p, o) == { t \in g : t[2] = p /\ t[3] = o }

TriplesP(g, p) == { t \in g : t[2] = p }

TriplesSP(g, s, p) == { t \in g : t[1] = s /\ t[2] = p }

\* every Graph.parse mints its own blank-node ids
Relabel(t, n) == IF IsBNode(t) THEN [t EXCEPT !.parse = n] ELSE t

RelabelTriple(tr, n) == <<Relabel(tr[1], n), tr[2], Relabel(tr[3], n)>>

Parse(triples, n) == { RelabelTriple(tr, n) : tr \in triples }

(***************************************************************************)
(* identify_classes: a dict term -> type tag, as a function.               *)
(***************************************************************************)
TagOwl == "explicit (RDF.type OWL.Class)"

TagRdfs == "explicit (RDF.type RDFS.Class)"

TagRdf == "explicit (RDF.type rdf:Class)"

TagInferred == "inferred (Turtle 'a')"

\* for s,p,o in g.triples((None, RDF.type, cls)): if s not in ADDITIONAL_EXCLUDES: classes[s] = tag
\* (a dict store: an existing key is overwritten)
ExplicitRule(classes, g, cls, tag) ==
    LET subjects == { t[1] : t \in TriplesPO(g, RDF_type, cls) } \ ADDITIONAL_EXCLUDES
    IN  [ s \in (DOMAIN classes) \cup subjects |->
            IF s \in subjects THEN tag ELSE classes[s] ]

\* InferenceExcluded without the XSD test
InferenceExcludedNoXsd(o) ==
    \/ o \in OWL_EXCLUDES
    \/ o \in ADDITIONAL_EXCLUDES
    \/ o \in RDFS_EXCLUDES

\* the test of rule 4 that skips an object of rdf:type
InferenceExcluded(o) ==
    \/ o \in OWL_EXCLUDES
    \/ o \in ADDITIONAL_EXCLUDES
    \/ StartsWithXSD(o)
    \/ o \in RDFS_EXCLUDES

\* rule 4: an object of rdf:type not yet a key and not excluded becomes inferred
InferRule(classes, g) ==
    LET objects == { t[3] : t \in TriplesP(g, RDF_type) }
        added == { o \in objects : o \notin DOMAIN classes /\ ~InferenceExcluded(o) }
    IN  [ c \in (DOMAIN classes) \cup added |->
            IF c \in DOMAIN classes THEN classes[c] ELSE TagInferred ]

\* RemoveBNodes without the deletion
RemoveBNodesKept(classes) == classes

\* for cls in list(classes.keys()): if isinstance(cls, BNode): del classes[cls]
RemoveBNodes(classes) ==
    [ c \in { k \in DOMAIN classes : ~IsBNode(k) } |-> classes[c] ]

EmptyDict == [ x \in {} |-> "" ]

identify_classes(g) ==
    LET c1 == ExplicitRule(EmptyDict, g, OWL_Class, TagOwl)
        c2 == ExplicitRule(c1, g, RDFS_Class, TagRdfs)
        c3 == ExplicitRule(c2, g, RDF_CLASS, TagRdf)
        c4 == InferRule(c3, g)
    IN  RemoveBNodes(c4)

(***************************************************************************)
(* Property classifier.  scan is the sequence in which the store yields    *)
(* g.triples((None, None, None)); the store fixes no order.                *)
(***************************************************************************)
Range(seq) == { seq[i] : i \in 1..Len(seq) }

None == <<>>

Some(x) == <<x>>

\* ConceptObjectTest with the object test of the individual mode
ConceptObjectTestWithBNode(o) == IsURIRef(o) \/ IsBNode(o)

\* class mode, line 152: isinstance(o, URIRef)
ConceptObjectTest(o) == IsURIRef(o)

\* class mode, line 155: not isinstance(o, URIRef)
ConceptDataTest(o) == ~IsURIRef(o)

\* individual mode, line 396: isinstance(o, URIRef) or isinstance(o, BNode)
IndividualObjectTest(o) == IsURIRef(o) \/ IsBNode(o)

\* individual mode, line 400: not isinstance(o, URIRef) and not isinstance(o, BNode)
IndividualDataTest(o) == ~IsURIRef(o) /\ ~IsBNode(o)

\* the test on the object made by a branch of the two classification loops
BranchTest(branch, o) ==
    CASE branch = "concept object" -> ConceptObjectTest(o)
      [] branch = "concept data" -> ConceptDataTest(o)
      [] branch = "individual object" -> IndividualObjectTest(o)
      [] branch = "individual data" -> IndividualDataTest(o)

\* the predicates a branch appends, in scan order, for subject s
Appended(scan, s, branch) ==
    LET sel == SelectSeq(scan, LAMBDA t :
                   /\ t[1] = s
                   /\ BranchTest(branch, t[3])
                   /\ t[2] \notin excluded_object_properties)
    IN  [ i \in 1..Len(sel) |-> sel[i][2] ]

\* the loop of lines 143-157: a key for every class that is the subject of a triple
ConceptBuckets(g, scan, classes) ==
    [ s \in { k \in DOMAIN classes : \E t \in g : t[1] = k } |->
        [ object_properties |-> Appended(scan, s, "concept object"),
          data_annotation_properties |-> Appended(scan, s, "concept data") ] ]

\* the dict comprehension of lines 161-167: the class type added to each entry
WithType(buckets, classes) ==
    [ s \in DOMAIN buckets |->
        [ type |-> classes[s],
          object_properties |-> buckets[s].object_properties,
          data_annotation_properties |-> buckets[s].data_annotation_properties ] ]

\* lines 133-168, given the classes of line 131
ConceptResult(g, scan, classes) ==
    [ concept_properties |-> WithType(ConceptBuckets(g, scan, classes), classes),
      classes |-> classes ]

\* returns (concept_properties, classes)
list_properties_by_concept(g, scan) == ConceptResult(g, scan, identify_classes(g))

(***************************************************************************)
(* Aggregator.  A ratio a / b is kept exact as [num, den]; Python's a / b  *)
(* raises ZeroDivisionError when b = 0, which is the ratio with den = 0.   *)
(***************************************************************************)
Zero == [num |-> 0, den |-> 1]

PyDiv(a, b) == [num |-> a, den |-> b]

Raises(ratio) == ratio.den = 0

\* Density without the guard
DensityUnguarded(a, n) == PyDiv(a, n)

\* a / n if n > 0 else 0
Density(a, n) == IF n > 0 THEN PyDiv(a, n) ELSE Zero

\* x + y on ratios
RatAdd(x, y) == [num |-> x.num * y.den + y.num * x.den, den |-> x.den * y.den]

RECURSIVE SumLen(_, _, _)
\* sum(len(properties[field]) for properties in props.values())
SumLen(props, keys, field) ==
    IF keys = {} THEN 0
    ELSE LET k == CHOOSE x \in keys : TRUE
         IN  Len(props[k][field]) + SumLen(props, keys \ {k}, field)

calculate_totals_and_densities(concept_properties, n_classes) ==
    LET keys == DOMAIN concept_properties
        all_object_properties ==
            UNION { Range(concept_properties[s].object_properties) : s \in keys }
        all_data_annotation_properties ==
            UNION { Range(concept_properties[s].data_annotation_properties) : s \in keys }
        total_object_properties == SumLen(concept_properties, keys, "object_properties")
        total_data_annotation_properties ==
            SumLen(concept_properties, keys, "data_annotation_properties")
    IN  [ total_object_properties |-> total_object_properties,
          total_data_annotation_properties |-> total_data_annotation_properties,
          total_object_properties_unique |-> Cardinality(all_object_properties),
          total_data_annotation_properties_unique |->
              Cardinality(all_data_annotation_properties),
          property_density |->
              Density(total_object_properties + total_data_annotation_properties, n_classes),
          object_density |-> Density(total_object_properties, n_classes),
          data_annotation_density |-> Density(total_data_annotation_properties, n_classes) ]

\* SubclassSet as a list: one element per triple
SubclassSetPerTriple(g) == TriplesP(g, RDFS_subClassOf)

\* subclasses = {str(s) for s, p, o in g.triples((None, RDFS.subClassOf, None))}
SubclassSet(g) == { Str(t[1]) : t \in TriplesP(g, RDFS_subClassOf) }

count_subclasses_and_average(g, total_classes) ==
    LET total_subclasses == Cardinality(SubclassSet(g))
    IN  [ total_subclasses |-> total_subclasses,
          average_subclasses_per_class |-> Density(total_subclasses, total_classes) ]

\* sum(1 for _ in g.triples((None, RDF.type, cls)))
CountTyped(g, cls) == Cardinality(TriplesPO(g, RDF_type, cls))

count_object_properties(g) == CountTyped(g, OWL("ObjectProperty"))

count_datatype_properties(g) == CountTyped(g, OWL("DatatypeProperty"))

count_annotation_properties(g) == CountTyped(g, OWL("AnnotationProperty"))

(***************************************************************************)
(* Individual identifier.  ontology_root is None or Some(subject): the     *)
(* subject of the first (s, rdf:type, owl:Ontology) triple the store       *)
(* yields, any of them since the store fixes no order.                     *)
(***************************************************************************)
OntologySubjects(g) == { t[1] : t \in TriplesPO(g, RDF_type, OWL_Ontology) }

RootChoices(g) ==
    IF OntologySubjects(g) = {} THEN { None }
    ELSE { Some(s) : s \in OntologySubjects(g) }

\* is_valid_individual without the loop over the subject's types
is_valid_individual_root_only(g, ontology_root, uri) ==
    ~(ontology_root # None /\ uri = ontology_root[1])

is_valid_individual(g, ontology_root, uri) ==
    /\ ~(ontology_root # None /\ uri = ontology_root[1])
    /\ \A t \in TriplesSP(g, uri, RDF_type) : t[3] \notin excluded_types

\* lines 315-317 and 364-366: the owl:NamedIndividual scan
NamedIndividuals(g, ontology_root) ==
    { s \in { t[1] : t \in TriplesPO(g, RDF_type, OWL_NamedIndividual) } :
        ~IsBNode(s) /\ is_valid_individual(g, ontology_root, s) }

\* TypedSubjects without the call of is_valid_individual
TypedSubjectsUnfiltered(g, ontology_root) ==
    { s \in { t[1] : t \in TriplesP(g, RDF_type) } : ~IsBNode(s) }

\* lines 320-322: the second scan of count_individuals (no test of the type object)
TypedSubjects(g, ontology_root) ==
    { s \in { t[1] : t \in TriplesP(g, RDF_type) } :
        ~IsBNode(s) /\ is_valid_individual(g, ontology_root, s) }

\* lines 369-371: the second scan of list_properties_by_individual
TypedIndividuals(g, ontology_root) ==
    { t[1] : t \in { u \in TriplesP(g, RDF_type) :
        /\ u[3] \notin excluded_types
        /\ ~IsBNode(u[1])
        /\ is_valid_individual(g, ontology_root, u[1]) } }

\* the set built by count_individuals; the function returns its size
CountIndividualsSet(g, ontology_root) ==
    NamedIndividuals(g, ontology_root) \cup TypedSubjects(g, ontology_root)

count_individuals(g, ontology_root) == Cardinality(CountIndividualsSet(g, ontology_root))

IndividualsSet(g, ontology_root) ==
    NamedIndividuals(g, ontology_root) \cup TypedIndividuals(g, ontology_root)

\* the loop of lines 387-403
IndividualBuckets(g, scan, individuals) ==
    [ s \in { k \in individuals : \E t \in g : t[1] = k } |->
        [ object_properties |-> Appended(scan, s, "individual object"),
          data_annotation_properties |-> Appended(scan, s, "individual data") ] ]

\* lines 405-418, given the two counters of the loop
IndividualDensities(individuals, individual_properties, object_per, data_per) ==
    [ individuals |-> individuals,
      individual_properties |-> individual_properties,
      object_properties_per_individual |-> object_per,
      data_properties_per_individual |-> data_per,
      property_density_by_individual |-> RatAdd(object_per, data_per) ]

\* lines 382-411: total_object_properties and total_data_properties count the appends
IndividualTotals(individuals, individual_properties) ==
    IndividualDensities(
        individuals, individual_properties,
        Density(SumLen(individual_properties, DOMAIN individual_properties,
                       "object_properties"),
                Cardinality(individuals)),
        Density(SumLen(individual_properties, DOMAIN individual_properties,
                       "data_annotation_properties"),
                Cardinality(individuals)))

\* lines 373-418, given the individuals of lines 344-371
IndividualResult(g, scan, individuals) ==
    IndividualTotals(individuals, IndividualBuckets(g, scan, individuals))

list_properties_by_individual(g, scan, ontology_root) ==
    IndividualResult(g, scan, IndividualsSet(g, ontology_root))

(***************************************************************************)
(* process_ttl_file.  A file is [name, content]; content is [ok, triples]: *)
(* ok = FALSE is a file Graph.parse or open() fails on.  The three parses  *)
(* of one file (process_ttl_file, list_properties_by_concept,              *)
(* list_properties_by_individual) load the same statements in the same     *)
(* order, each with blank-node ids of its own.                             *)
(***************************************************************************)
FileName(stem, ext) == [stem |-> stem, ext |-> ext]

\* file_name.endswith(".ttl")
EndsWithTtl(name) == name.ext = ".ttl"

File(name, content) == [name |-> name, content |-> content]

Turtle(triples) == [ok |-> TRUE, triples |-> triples]

Malformed == [ok |-> FALSE, triples |-> {}]

RelabelSeq(scan, n) == [ i \in 1..Len(scan) |-> RelabelTriple(scan[i], n) ]

RelabelRoot(root, n) == IF root = None THEN None ELSE Some(Relabel(root[1], n))

NoLocals ==
    [ g |-> {}, classes |-> EmptyDict, concept_properties |-> EmptyDict,
      individuals |-> {}, individual_properties |-> EmptyDict,
      counted |-> {}, ontology_root |-> None ]

\* the dict of lines 458-485 (the textual metrics, which no classification feeds, are left out)
Record(name, g, n_classes, total_individuals, td, ind, sub) ==
    ("File Name" :> name)
    @@ ("Total Triples" :> Cardinality(g))
    @@ ("Total Classes" :> n_classes)
    @@ ("Total Individuals" :> total_individuals)
    @@ ("Total Object Properties" :> td.total_object_properties)
    @@ ("Unique Object Properties" :> td.total_object_properties_unique)
    @@ ("Object Properties Defined" :> count_object_properties(g))
    @@ ("Total Data/Annotation Properties" :> td.total_data_annotation_properties)
    @@ ("Unique Data/Annotation Properties" :> td.total_data_annotation_properties_unique)
    @@ ("Property Density by Class" :> td.property_density)
    @@ ("Object Density by Class" :> td.object_density)
    @@ ("Data/Annotation Density by Class" :> td.data_annotation_density)
    @@ ("Property Density by Individual" :> ind.property_density_by_individual)
    @@ ("Object Density by Individual" :> ind.object_properties_per_individual)
    @@ ("Data/Annotation Density by Individual" :> ind.data_properties_per_individual)
    @@ ("Data Properties Defined" :> count_datatype_properties(g))
    @@ ("Annotation Properties Defined" :> count_annotation_properties(g))
    @@ ("Total Subclasses" :> sub.total_subclasses)
    @@ ("Average Subclasses per Class" :> sub.average_subclasses_per_class)

RatioFields ==
    { "Property Density by Class", "Object Density by Class",
      "Data/Annotation Density by Class", "Property Density by Individual",
      "Object Density by Individual", "Data/Annotation Density by Individual",
      "Average Subclasses per Class" }

\* the end of the try block: a ratio that raised leaves it by the exception
Return(rec, locals) ==
    IF \E f \in RatioFields : Raises(rec[f])
    THEN [ raised |-> TRUE, ret |-> None, locals |-> locals ]
    ELSE [ raised |-> FALSE, ret |-> Some(rec), locals |-> locals ]

Locals(g, byConcept, individuals_density, counted, ontology_root) ==
    [ g |-> g, classes |-> byConcept.classes,
      concept_properties |-> byConcept.concept_properties,
      individuals |-> individuals_density.individuals,
      individual_properties |-> individuals_density.individual_properties,
      counted |-> counted,
      ontology_root |-> ontology_root ]

\* lines 439-485, given n_classes = len(classes)
Metrics(name, g, byConcept, individuals_density, n_classes, rootG, rootI) ==
    Return(Record(name, g, n_classes, count_individuals(g, rootG),
                  calculate_totals_and_densities(byConcept.concept_properties, n_classes),
                  individuals_density,
                  count_subclasses_and_average(g, n_classes)),
           Locals(g, byConcept, individuals_density, CountIndividualsSet(g, rootG), rootI))

\* lines 436-485, given the results of the two list_properties calls
Aggregate(name, g, byConcept, individuals_density, rootG, rootI) ==
    Metrics(name, g, byConcept, individuals_density,
            Cardinality(DOMAIN byConcept.classes), rootG, rootI)

\* the body of the try block, lines 428-485: [raised, ret, locals]; its three parses
\* mint the blank-node ids first + 1, first + 2, first + 3
TryBodyAt(file, scan, root, first) ==
    IF ~file.content.ok
    THEN [ raised |-> TRUE, ret |-> None, locals |-> NoLocals ]
    ELSE Aggregate(
             file.name,
             Parse(file.content.triples, first + 1),
             list_properties_by_concept(Parse(file.content.triples, first + 2),
                                        RelabelSeq(scan, first + 2)),
             list_properties_by_individual(Parse(file.content.triples, first + 3),
                                           RelabelSeq(scan, first + 3),
                                           RelabelRoot(root, first + 3)),
             RelabelRoot(root, first + 1),
             RelabelRoot(root, first + 3))

\* the first call on a document
TryBody(file, scan, root) == TryBodyAt(file, scan, root, 0)

\* ExceptException without the handler: the exception leaves process_ttl_file
ExceptNothing(r) ==
    [ raised |-> r.raised, ret |-> r.ret, locals |-> r.locals, printed |-> <<>> ]

\* except Exception as e: print(...); return None
ExceptException(r) ==
    IF r.raised
    THEN [ raised |-> FALSE, ret |-> None, locals |-> r.locals, printed |-> <<"Error processing file">> ]
    ELSE [ raised |-> FALSE, ret |-> r.ret, locals |-> r.locals, printed |-> <<>> ]

process_ttl_file(file, scan, root) == ExceptException(TryBody(file, scan, root))

\* a further call on the same document: every parse mints new blank-node ids
process_ttl_file_again(file, scan, root) == ExceptException(TryBodyAt(file, scan, root, 3))

(***************************************************************************)
(* The batch loop of __main__.                                             *)
(***************************************************************************)
VARIABLES
    files,                  \* os.listdir(folder_path), with each file's content
    idx,                    \* position of the for loop in files
    df,                     \* the DataFrame: a sequence of records
    excel,                  \* the file at output_excel: [exists, rows]
    stdout,                 \* what has been printed: <<message, file name>>
    status,                 \* "running", "finished" or "aborted" (uncaught exception)
    metrics,                \* what the last process_ttl_file call returned
    locals                  \* the locals of the last process_ttl_file call

vars == <<files, idx, df, excel, stdout, status, metrics, locals>>

\* df = pd.concat([df, pd.DataFrame([metrics])], ignore_index=True)
PdConcat(frame, row) == Append(frame, row)

\* ToExcel writing the new row only
ToExcelLastRow(frame) == [exists |-> TRUE, rows |-> << frame[Len(frame)] >>]

\* df.to_excel(output_excel, index=False)
ToExcel(frame) == [exists |-> TRUE, rows |-> frame]

\* the triples that append to a bucket; the place of the others in the scan shows nowhere
Appending(triples) == { t \in triples : t[2] \notin excluded_object_properties }

Orders(S) ==
    { f \in [1..Cardinality(S) -> S] : \A i, j \in 1..Cardinality(S) : f[i] = f[j] => i = j }

\* an iteration of the loop on a file that is not *.ttl
SkipFile ==
    /\ status = "running"
    /\ idx <= Len(files)
    /\ ~EndsWithTtl(files[idx].name)
    /\ idx' = idx + 1
    /\ UNCHANGED <<files, df, excel, stdout, status, metrics, locals>>

\* lines 515-526, given what process_ttl_file did: r = [raised, ret, locals, printed];
\* an exception that leaves process_ttl_file ends the script
LoopBody(file, r, out) ==
    /\ locals' = r.locals
    /\ metrics' = r.ret
    /\ IF r.raised
       THEN /\ status' = "aborted"
            /\ stdout' = out
            /\ UNCHANGED <<idx, df, excel>>
       ELSE /\ status' = status
            /\ idx' = idx + 1
            /\ IF r.ret # None
               THEN /\ df' = PdConcat(df, r.ret[1])
                    /\ excel' = ToExcel(PdConcat(df, r.ret[1]))
                    /\ stdout' = Append(out, <<"Metrics saved", file.name>>)
               ELSE /\ stdout' = Append(out, <<r.printed[1], file.name>>)
                    /\ UNCHANGED <<df, excel>>

\* an iteration of the loop on a *.ttl file, lines 514-526
ProcessFile ==
    /\ status = "running"
    /\ idx <= Len(files)
    /\ EndsWithTtl(files[idx].name)
    /\ \E scan \in Orders(Appending(files[idx].content.triples)),
          root \in RootChoices(files[idx].content.triples) :
        LoopBody(files[idx], process_ttl_file(files[idx], scan, root),
                 Append(stdout, <<"Processing file", files[idx].name>>))
    /\ UNCHANGED files

\* the listing is exhausted: the script ends
LoopEnd ==
    /\ status = "running"
    /\ idx > Len(files)
    /\ status' = "finished"
    /\ UNCHANGED <<files, idx, df, excel, stdout, metrics, locals>>

Next == SkipFile \/ ProcessFile \/ LoopEnd

(***************************************************************************)
(* The documents and listings the model runs on.                           *)
(***************************************************************************)
MaxTriples == 3

MaxFiles == 3

exA == URIRef("ex", "A")

exB == URIRef("ex", "B")

exP == URIRef("ex", "p")

exQ == URIRef("ex", "q")

b1 == BNode("b1")

lit1 == Literal("", "The quick fox")

lit2 == Literal("", "fox")

litXsd == Literal(XSD, "int")

xsdString == URIRef(XSD, "string")

TypeTriples ==
    ({exA} \X {RDF_type} \X { OWL_Class, RDFS_Class, RDF_CLASS, OWL_Ontology,
                               OWL_NamedIndividual, OWL("onDatatype"), xsdString,
                               exB, b1, lit1, litXsd })
    \cup ({exB} \X {RDF_type} \X { OWL_Class, OWL_Ontology, OWL_NamedIndividual, exA })
    \cup ({b1} \X {RDF_type} \X { OWL_Class, OWL_NamedIndividual, exA })
    \cup ({OWL_Class} \X {RDF_type} \X { OWL_Class, RDFS_Class, RDF_CLASS })

PropertyTriples ==
    ({exA} \X {exP} \X { exA, exB, b1, lit1, lit2 })
    \cup ({exA} \X {exQ} \X { exB, lit1 })
    \cup ({exB} \X {exP} \X { exA, lit1 })
    \cup ({b1} \X {exP} \X { exA, lit1 })
    \cup { <<exA, RDFS_subClassOf, exB>>, <<exA, RDFS_subClassOf, b1>>,
           <<exB, RDFS_subClassOf, exA>>, <<b1, RDFS_subClassOf, exB>> }

Universe == TypeTriples \cup PropertyTriples

RECURSIVE SubsetsUpTo(_)
SubsetsUpTo(n) ==
    IF n = 0 THEN { {} }
    ELSE LET prev == SubsetsUpTo(n - 1)
         IN  prev \cup { s \cup {t} : s \in prev, t \in Universe }

Docs == { Turtle(d) : d \in SubsetsUpTo(MaxTriples) } \cup { Malformed }

CannedFiles ==
    { File(FileName("a", ".ttl"),
           Turtle({ <<exA, RDF_type, exB>>, <<exB, RDF_type, OWL_Class>>, <<exA, exP, exB>> })),
      File(FileName("b", ".ttl"), Malformed),
      File(FileName("c", ".ttl"), Turtle({ <<exA, RDF_type, OWL_Class>> })),
      File(FileName("d", ".ttl"), Malformed),
      File(FileName("notes", ".txt"), Turtle({})) }

Listings ==
    { <<File(FileName("doc", ".ttl"), d)>> : d \in Docs }
    \cup UNION { { l \in [1..n -> CannedFiles] : \A i, j \in 1..n : l[i] = l[j] => i = j } :
                 n \in 0..MaxFiles }

NoFile == [exists |-> FALSE, rows |-> <<>>]

\* a table left at output_excel by an earlier run
StaleFile == [exists |-> TRUE, rows |-> << ("File Name" :> FileName("old", ".ttl")) >>]

Init ==
    /\ files \in Listings
    /\ idx = 1
    /\ df = <<>>
    /\ excel \in { NoFile, StaleFile }
    /\ stdout = <<>>
    /\ status = "running"
    /\ metrics = None
    /\ locals = NoLocals

Spec == Init /\ [][Next]_vars

(***************************************************************************)
(* Vocabulary of the properties below.                                     *)
(***************************************************************************)
\* the positions of the listing on which process_ttl_file has been called
CalledAt == { k \in 1..(idx - 1) : EndsWithTtl(files[k].name) }

Called == CalledAt # {}

\* the file of the last process_ttl_file call
LastFile == files[CHOOSE k \in CalledAt : \A j \in CalledAt : j <= k]

\* the last call was on a well-formed document
Processed == Called /\ LastFile.content.ok

\* the triple set of that document
doc == LastFile.content.triples

IsTypeTriple(t) == t[2] = RDF("type")

TypesOf(r) == { t[3] : t \in { u \in doc : IsTypeTriple(u) /\ u[1] = r } }

TypedAs(r, cls) == <<r, RDF("type"), cls>> \in doc

TypeObjects == { t[3] : t \in { u \in doc : IsTypeTriple(u) } }

Subjects == { t[1] : t \in doc }

ClassKeys == DOMAIN locals.classes

MetaVocabulary == { RDFS("Class"), OWL("Class"), RDF("Property") }

OwlVocabulary ==
    { OWL("Ontology"), OWL("Restriction"), OWL("DeprecatedClass"), OWL("ObjectProperty"),
      OWL("TransitiveProperty"), OWL("DatatypeProperty"), OWL("FunctionalProperty"),
      OWL("DeprecatedProperty"), OWL("Thing"), OWL("Nothing"), OWL("AnnotationProperty"),
      OWL("SymmetricProperty"), OWL("InverseFunctionalProperty") }

RdfsVocabulary == { RDFS("Datatype"), RDFS("Resource"), RDFS("Literal") }

ExcludedTypes ==
    { OWL("Class"), OWL("ObjectProperty"), OWL("AnnotationProperty"), OWL("DatatypeProperty"),
      OWL("Ontology"), OWL("Restriction"), OWL("FunctionalProperty"),
      OWL("DeprecatedProperty"), OWL("InverseFunctionalProperty"), OWL("SymmetricProperty"),
      OWL("TransitiveProperty"), OWL("onDatatype"), OWL("DeprecatedClass"),
      RDF("Property"), RDFS("Datatype"), RDFS("Class") }

DeclaredClass(r) ==
    TypedAs(r, OWL("Class")) \/ TypedAs(r, RDFS("Class")) \/ TypedAs(r, RDF("Class"))

\* r passes every exclusion of the inference rule
Inferable(r) ==
    /\ r \notin OwlVocabulary
    /\ r \notin MetaVocabulary
    /\ r.ns # "xsd"
    /\ r \notin RdfsVocabulary

ClassDenominator == Cardinality(ClassKeys)

IndividualDenominator == Cardinality(locals.individuals)

DenominatorOf(f) ==
    IF f \in { "Property Density by Individual", "Object Density by Individual",
               "Data/Annotation Density by Individual" }
    THEN IndividualDenominator ELSE ClassDenominator

(***************************************************************************)
(* C1: for every document each ratio field of the record is finite and     *)
(* non-negative, is exactly 0 when its denominator (class count,           *)
(* respectively individual count) is 0, and computing it never fails: a    *)
(* well-formed document always yields a record.                            *)
(***************************************************************************)
C1_DensitiesFiniteNonNegative ==
    Processed =>
        /\ metrics # None
        /\ \A f \in RatioFields :
             /\ metrics[1][f].den > 0
             /\ metrics[1][f].num >= 0
             /\ (DenominatorOf(f) = 0 => metrics[1][f].num = 0)

\* a document with no class and one individual that has a property
C1_Witness ==
    /\ Processed
    /\ metrics # None
    /\ ClassDenominator = 0
    /\ metrics[1]["Property Density by Class"] = [num |-> 0, den |-> 1]
    /\ IndividualDenominator = 1
    /\ metrics[1]["Property Density by Individual"].num > 0

(***************************************************************************)
(* C2 as stated: the keys of identify_classes are exactly the non-blank    *)
(* resources typed owl:Class, rdfs:Class or rdf:Class together with the    *)
(* non-blank resources that are the object of an rdf:type triple and pass  *)
(* the four exclusions.                                                    *)
(***************************************************************************)
C2_Original ==
    Processed =>
        ClassKeys = { r \in Subjects : ~IsBNode(r) /\ DeclaredClass(r) }
                    \cup { r \in TypeObjects : IsURIRef(r) /\ Inferable(r) }

(***************************************************************************)
(* C2 amended: the keys are exactly the non-blank subjects typed           *)
(* owl:Class, rdfs:Class or rdf:Class that are not themselves one of       *)
(* rdfs:Class, owl:Class, rdf:Property, together with every term, IRI or   *)
(* literal, that is the object of an rdf:type triple and passes the four   *)
(* exclusions (the XSD test being on the term's string form).              *)
(***************************************************************************)
C2_ClassKeys ==
    Processed =>
        ClassKeys = { r \in Subjects :
                        ~IsBNode(r) /\ r \notin MetaVocabulary /\ DeclaredClass(r) }
                    \cup { r \in TypeObjects : ~IsBNode(r) /\ Inferable(r) }

\* an explicit class, an inferred class and a meta-vocabulary subject typed as a class
C2_Witness ==
    /\ Processed
    /\ \E r \in ClassKeys : locals.classes[r] # "inferred (Turtle 'a')"
    /\ \E r \in ClassKeys : locals.classes[r] = "inferred (Turtle 'a')"
    /\ \E r \in MetaVocabulary : DeclaredClass(r) /\ r \notin ClassKeys

(***************************************************************************)
(* C3: classification is first-match-wins in the order owl:Class,          *)
(* rdfs:Class, rdf:Class, inferred: every class carries the kind of the    *)
(* first rule that matches it.                                             *)
(***************************************************************************)
C3_FirstMatchWins ==
    Processed =>
        \A r \in ClassKeys :
            locals.classes[r] =
                IF TypedAs(r, OWL("Class")) THEN "explicit (RDF.type OWL.Class)"
                ELSE IF TypedAs(r, RDFS("Class")) THEN "explicit (RDF.type RDFS.Class)"
                ELSE IF TypedAs(r, RDF("Class")) THEN "explicit (RDF.type rdf:Class)"
                ELSE "inferred (Turtle 'a')"

(***************************************************************************)
(* C4: a resource declared (R, rdf:type, owl:Class) that is also the       *)
(* object of an rdf:type triple is classified explicit-owl-class, never    *)
(* inferred, and counts exactly once in Total Classes.  (Stated for the    *)
(* resources the class rules can keep: not blank, not meta-vocabulary.)    *)
(***************************************************************************)
C4_ExplicitOwlNotInferred ==
    Processed =>
        \A r \in TypeObjects :
            (TypedAs(r, OWL("Class")) /\ ~IsBNode(r) /\ r \notin MetaVocabulary) =>
                /\ r \in ClassKeys
                /\ locals.classes[r] = "explicit (RDF.type OWL.Class)"
                /\ metrics # None
                /\ metrics[1]["Total Classes"] = Cardinality(ClassKeys \ {r}) + 1

(***************************************************************************)
(* C5: no blank node is in the class set of identify_classes, in the       *)
(* individual set of count_individuals or in the individual set of         *)
(* list_properties_by_individual.                                          *)
(***************************************************************************)
C5_NoBlankNodes ==
    /\ \A c \in ClassKeys : ~IsBNode(c)
    /\ \A i \in locals.counted : ~IsBNode(i)
    /\ \A i \in locals.individuals : ~IsBNode(i)

\* a blank node typed owl:NamedIndividual that is also the object of an rdf:type triple
C5_Witness ==
    /\ Processed
    /\ \E t \in doc : IsBNode(t[1]) /\ t[2] = RDF("type") /\ t[3] = OWL("NamedIndividual")
    /\ \E t \in doc : IsBNode(t[3]) /\ t[2] = RDF("type")
    /\ ClassKeys # {}
    /\ locals.individuals # {}

(***************************************************************************)
(* C6: R is in the individual set iff R is not a blank node, is not the    *)
(* ontology root, has an rdf:type triple and none of its types is          *)
(* excluded; the set is the union of the owl:NamedIndividual subjects and  *)
(* the subjects of a non-excluded type, each so filtered; an inferred      *)
(* class that qualifies is both a class and an individual.                 *)
(***************************************************************************)
Qualifies(r) ==
    /\ ~IsBNode(r)
    /\ Some(r) # locals.ontology_root
    /\ TypesOf(r) # {}
    /\ TypesOf(r) \cap ExcludedTypes = {}

C6_IndividualSet ==
    Processed =>
        /\ locals.individuals = { r \in Subjects : Qualifies(r) }
        /\ locals.individuals =
             { r \in Subjects : TypedAs(r, OWL("NamedIndividual")) /\ Qualifies(r) }
             \cup { r \in Subjects : TypesOf(r) \ ExcludedTypes # {} /\ Qualifies(r) }
        /\ \A r \in ClassKeys :
             (locals.classes[r] = "inferred (Turtle 'a')" /\ Qualifies(r)) =>
                 r \in locals.individuals

\* an inferred class that is an individual, beside a typed subject that is not one
C6_Witness ==
    /\ Processed
    /\ \E r \in ClassKeys \cap locals.individuals :
         locals.classes[r] = "inferred (Turtle 'a')"
    /\ \E r \in Subjects : ~IsBNode(r) /\ TypesOf(r) # {} /\ r \notin locals.individuals

(***************************************************************************)
(* C7: every triple whose subject is in the target set and whose predicate *)
(* is not rdfs:subClassOf or rdf:type appends its predicate to exactly one *)
(* bucket of the subject, duplicates kept: for classes the object bucket   *)
(* iff the object is an IRI, else the data bucket; for individuals the     *)
(* object bucket iff the object is an IRI or a blank node, the data bucket *)
(* iff it is a literal.  The two excluded predicates are in no bucket.     *)
(***************************************************************************)
Count(p, seq) == Cardinality({ i \in 1..Len(seq) : seq[i] = p })

Predicates == { t[2] : t \in doc }

ObjectsOf(s, p) == { t[3] : t \in { u \in doc : u[1] = s /\ u[2] = p } }

Skipped(p) == p \in { RDFS("subClassOf"), RDF("type") }

InBucket(props, s, field, p) ==
    IF s \in DOMAIN props THEN Count(p, props[s][field]) ELSE 0

C7_Buckets ==
    Processed =>
        /\ DOMAIN locals.concept_properties \subseteq ClassKeys
        /\ DOMAIN locals.individual_properties \subseteq locals.individuals
        /\ \A s \in ClassKeys, p \in Predicates \cup { exP, exQ } :
             /\ InBucket(locals.concept_properties, s, "object_properties", p) =
                  IF Skipped(p) THEN 0
                  ELSE Cardinality({ o \in ObjectsOf(s, p) : IsURIRef(o) })
             /\ InBucket(locals.concept_properties, s, "data_annotation_properties", p) =
                  IF Skipped(p) THEN 0
                  ELSE Cardinality({ o \in ObjectsOf(s, p) : IsLiteral(o) \/ IsBNode(o) })
        /\ \A s \in locals.individuals, p \in Predicates \cup { exP, exQ } :
             /\ InBucket(locals.individual_properties, s, "object_properties", p) =
                  IF Skipped(p) THEN 0
                  ELSE Cardinality({ o \in ObjectsOf(s, p) : IsURIRef(o) \/ IsBNode(o) })
             /\ InBucket(locals.individual_properties, s, "data_annotation_properties", p) =
                  IF Skipped(p) THEN 0
                  ELSE Cardinality({ o \in ObjectsOf(s, p) : IsLiteral(o) })

\* a class that is also an individual, with a blank-node object and a literal object
C7_Witness ==
    /\ Processed
    /\ \E s \in DOMAIN locals.concept_properties \cap DOMAIN locals.individual_properties :
         /\ \E t \in doc : t[1] = s /\ IsBNode(t[3]) /\ ~Skipped(t[2])
         /\ Len(locals.concept_properties[s].data_annotation_properties) = 2
         /\ locals.concept_properties[s].object_properties = <<>>
         /\ Len(locals.individual_properties[s].object_properties) = 1
         /\ Len(locals.individual_properties[s].data_annotation_properties) = 1

(***************************************************************************)
(* C8: a failure on one document skips that document only: it is reported, *)
(* no row is emitted for it, nothing aborts the batch and the loop goes on *)
(* to attempt every remaining document.                                    *)
(***************************************************************************)
RowNames(rows) == { rows[i]["File Name"] : i \in 1..Len(rows) }

FailuresSkipped ==
    /\ status # "aborted"
    /\ \A k \in CalledAt :
         ~files[k].content.ok =>
             /\ <<"Error processing file", files[k].name>> \in Range(stdout)
             /\ files[k].name \notin RowNames(df)
             /\ files[k].name \notin RowNames(excel.rows)
    /\ status = "finished" =>
         \A k \in 1..Len(files) :
             EndsWithTtl(files[k].name) =>
                 <<"Processing file", files[k].name>> \in Range(stdout)

\* an iteration of the loop, whatever its document does, hands over to the next document
LoopGoesOn ==
    (status = "running" /\ idx <= Len(files)) => (status' = "running" /\ idx' = idx + 1)

C8_FailureSkipsOneDocument == []FailuresSkipped /\ [][LoopGoesOn]_vars

\* a finished batch in which a document failed and a later one got its row
C8_Witness ==
    /\ status = "finished"
    /\ \E j, k \in 1..Len(files) :
         /\ j < k
         /\ EndsWithTtl(files[j].name) /\ ~files[j].content.ok
         /\ files[k].name \in RowNames(excel.rows)

(***************************************************************************)
(* C9: at every point of the run the table holds one row for every         *)
(* document that has succeeded so far, in processing order, and none for a *)
(* failed or pending one; once a document has succeeded the persisted      *)
(* table is the whole table.                                               *)
(***************************************************************************)
SucceededSoFar ==
    SelectSeq(SubSeq(files, 1, idx - 1),
              LAMBDA f : EndsWithTtl(f.name) /\ f.content.ok)

C9_TableCompleteSoFar ==
    /\ Len(df) = Len(SucceededSoFar)
    /\ \A i \in 1..Len(df) : df[i]["File Name"] = SucceededSoFar[i].name
    /\ SucceededSoFar # <<>> =>
         /\ excel.exists
         /\ excel.rows = df
    /\ (Processed /\ metrics # None) => df[Len(df)] = metrics[1]

\* two rows persisted around a failed document
C9_Witness ==
    /\ Len(excel.rows) = 2
    /\ excel.rows = df
    /\ \E k \in CalledAt : ~files[k].content.ok
    /\ idx = 4

(***************************************************************************)
(* C10 as stated: Total Subclasses is the number of distinct resources     *)
(* that are the object of an rdfs:subClassOf triple, and the average is    *)
(* that count over the class count (0 without classes).                    *)
(***************************************************************************)
SubClassTriples == { t \in doc : t[2] = RDFS("subClassOf") }

Average(n) == IF ClassDenominator = 0 THEN [num |-> 0, den |-> 1]
              ELSE [num |-> n, den |-> ClassDenominator]

C10_Original ==
    (Processed /\ metrics # None) =>
        LET targets == { t[3] : t \in SubClassTriples }
        IN  /\ metrics[1]["Total Subclasses"] = Cardinality(targets)
            /\ metrics[1]["Average Subclasses per Class"] = Average(Cardinality(targets))

(***************************************************************************)
(* C10 amended: Total Subclasses is the number of distinct subjects of     *)
(* rdfs:subClassOf triples (the subclasses, blank nodes included), and the *)
(* average is that count over the class count (0 without classes).         *)
(***************************************************************************)
C10_TotalSubclasses ==
    (Processed /\ metrics # None) =>
        LET subclasses == { t[1] : t \in SubClassTriples }
        IN  /\ metrics[1]["Total Subclasses"] = Cardinality(subclasses)
            /\ metrics[1]["Average Subclasses per Class"] = Average(Cardinality(subclasses))

\* one subclass with two targets, in a document that has a class
C10_Witness ==
    /\ Processed
    /\ metrics # None
    /\ Cardinality({ t[1] : t \in SubClassTriples }) = 1
    /\ Cardinality({ t[3] : t \in SubClassTriples }) = 2
    /\ metrics[1]["Average Subclasses per Class"].num = 1
    /\ ClassDenominator > 0

(***************************************************************************)
(* A second run of the engine on the document just processed: the store    *)
(* may yield the triples in another order and another owl:Ontology subject *)
(* first, and the parses mint other blank-node ids.                        *)
(***************************************************************************)
Again(file, r) ==
    /\ metrics' = r.ret
    /\ locals' = r.locals
    /\ stdout' = IF r.printed = <<>> THEN stdout
                 ELSE Append(stdout, <<r.printed[1], file.name>>)

ProcessAgain ==
    /\ status # "aborted"
    /\ Processed
    /\ metrics # None
    /\ \E scan \in Orders(Appending(doc)), root \in RootChoices(doc) :
         Again(LastFile, process_ttl_file_again(LastFile, scan, root))
    /\ UNCHANGED <<files, idx, df, excel, status>>

NextAgain == Next \/ ProcessAgain

SpecAgain == Init /\ [][NextAgain]_vars

(***************************************************************************)
(* C11: running the engine twice on the same document yields the same      *)
(* value for every metric, whatever the order in which the store yields    *)
(* the triples, whichever owl:Ontology subject comes first as the root and *)
(* whatever blank-node ids the parses assign.                              *)
(***************************************************************************)
C11_Idempotent == [][ProcessAgain => metrics' = metrics]_vars

\* after a second run (its blank-node ids are those of parse 4) on a document with
\* two owl:Ontology subjects, one of them the root of this run, and a property
C11_Witness ==
    /\ Processed
    /\ metrics # None
    /\ \E t \in locals.g : t[1].parse = 4 \/ t[3].parse = 4
    /\ Cardinality({ t[1] : t \in { u \in doc : u[2] = RDF("type") /\ u[3] = OWL("Ontology") } }) = 2
    /\ locals.ontology_root # None

(***************************************************************************)
(* C12: Total Individuals, which count_individuals computes without        *)
(* testing the type object, is the size of the individual set that         *)
(* list_properties_by_individual builds with that test: the two select the *)
(* same set, so Object Density by Individual times Total Individuals is    *)
(* the number of object-property occurrences of the individuals.           *)
(***************************************************************************)
ObjectOccurrences ==
    Cardinality({ t \in doc :
        /\ t[1] \in locals.individuals
        /\ ~Skipped(t[2])
        /\ (IsURIRef(t[3]) \/ IsBNode(t[3])) })

C12_IndividualCountsAgree ==
    (Processed /\ metrics # None) =>
        /\ locals.counted = locals.individuals
        /\ metrics[1]["Total Individuals"] = Cardinality(locals.individuals)
        /\ metrics[1]["Object Density by Individual"].num
             * metrics[1]["Total Individuals"]
           = ObjectOccurrences * metrics[1]["Object Density by Individual"].den

\* a subject typed with an excluded type, which only is_valid_individual keeps out of
\* the count, beside an individual that has an object property
C12_Witness ==
    /\ Processed
    /\ metrics # None
    /\ \E t \in doc : t[2] = RDF("type") /\ t[3] \in ExcludedTypes /\ ~IsBNode(t[1])
    /\ metrics[1]["Total Individuals"] >= 1
    /\ metrics[1]["Object Density by Individual"].num > 0

====
